---- MODULE Spec2Model ----
(***************************************************************************)
(* Model of atividade2.cc: five TcpApp applications on a line N0..N4 that  *)
(* relay one integer over per-message TCP connections.  Each callback of   *)
(* TcpApp is one action; the ns-3 scheduler and transport are modelled as  *)
(* far as main() and the callbacks determine them.                         *)
(***************************************************************************)
EXTENDS Integers, Sequences, FiniteSets, Bags, TLC

VARIABLES now, halted, started, stopped, generator, left_neighbor_ip,
          right_neighbor_ip, receiver_socket, sender_socket, net, ev,
          injected

vars == <<now, halted, started, stopped, generator, left_neighbor_ip,
          right_neighbor_ip, receiver_socket, sender_socket, net, ev, injected>>

----------------------------------------------------------------------------
(* Program constants *)

NUM_NODES == 5

StartTime == 1

AppStopTime == 30

SimStopTimeLate == AppStopTime + 1

SimStopTime == 30

RandMin == 0

RandMax == 100

TokenSize == 4

(* Bounds of the model *)

MaxInject == 1

MaxSize == 5

----------------------------------------------------------------------------
Nodes == 0 .. (NUM_NODES - 1)

\* Ipv4AddressHelper hands out 10.0.0.1, 10.0.0.2, ... in node order; an
\* address is modelled by its last octet.
GetAddress(i) == i + 1

Addresses == {GetAddress(i) : i \in Nodes}

NodeOf(a) == a - 1

\* The literal "10.0.0.1" compared with the sender's address.
OriginAddress == 1

GenerateRandomValueWide == RandMin .. (RandMax + 1)

GenerateRandomValueShort == RandMin .. (RandMax - 1)

\* uniform_int_distribution<> dis(0, 100): the values a draw can return.
GenerateRandomValue == RandMin .. RandMax

----------------------------------------------------------------------------
(* htonl / ntohl on a little-endian host: an int32 is four octets, most    *)
(* significant first, in two's complement.                                 *)

UBytes(m) == << (m \div 16777216) % 256, (m \div 65536) % 256,
                (m \div 256) % 256, m % 256 >>

UValue(b) == ((b[1] * 256 + b[2]) * 256 + b[3]) * 256 + b[4]

Complement(b) == [i \in 1 .. 4 |-> 255 - b[i]]

htonl(n) == IF n >= 0 THEN UBytes(n) ELSE Complement(UBytes(-(n + 1)))

\* the octets read in host order, without the swap
ntohlNoSwap(b) ==
    LET r == << b[4], b[3], b[2], b[1] >>
    IN IF r[1] < 128 THEN UValue(r) ELSE -(UValue(Complement(r))) - 1

ntohl(b) == IF b[1] < 128 THEN UValue(b) ELSE -(UValue(Complement(b))) - 1

\* Create<Packet>(buffer, sizeof(networkOrderNumber))
CreatePacket(n) == htonl(n)

\* packet->CopyData(&networkOrderNumber, 4): copies min(size, 4) octets; the
\* octets of the uninitialised local that are not overwritten keep whatever
\* the stack held (fill).
CopyData(data, fill) ==
    [i \in 1 .. TokenSize |-> IF i <= Len(data) THEN data[i] ELSE fill[i]]

----------------------------------------------------------------------------
(* The relay rule of ProcessReceivedPacket *)

IsOriginHopAnySender(id, from) == id = 1

\* if (this->id == 1 && inetFrom.GetIpv4() == "10.0.0.1")
IsOriginHop(id, from) == id = 1 /\ from = OriginAddress

OriginHopLeftKept(right, left) == left

\* this->left_neighbor_ip = this->right_neighbor_ip
OriginHopLeft(right, left) == right

OriginHopNumberDrawn(n, v) == v

\* SendPacket(receivedNumber) on the origin hop: the number read, not a draw.
OriginHopNumber(n, v) == n

OppositeNeighborAlwaysRight(right, left, from) == right

\* the comparison inverted
OppositeNeighborInverted(right, left, from) == IF right = from THEN right ELSE left

\* if (right == from) connect left, else connect right
OppositeNeighbor(right, left, from) == IF right = from THEN left ELSE right

\* One pass of the loop body after the receipt has been logged: the neighbour
\* connected to, the number sent, and the agent's fields afterwards.  v is the
\* value GenerateRandomValue() returns if it is called.
Relay(id, from, n, gen, right, left, v) ==
    IF IsOriginHop(id, from)
    THEN [dest |-> right, number |-> OriginHopNumber(n, v),
          left |-> OriginHopLeft(right, left),
          generator |-> TRUE, regenerated |-> FALSE]
    ELSE IF gen
    THEN [dest |-> left, number |-> v, left |-> left,
          generator |-> gen, regenerated |-> TRUE]
    ELSE [dest |-> OppositeNeighbor(right, left, from), number |-> n,
          left |-> left, generator |-> gen, regenerated |-> FALSE]

\* GenerateRandomValue() is called only on the generator branch; elsewhere no
\* draw is made (RandMin stands for "not drawn").
Draws(gen, hop) == IF gen /\ ~hop THEN GenerateRandomValue ELSE {RandMin}

\* The octets of networkOrderNumber that CopyData leaves unwritten.
Uninitialized(data) ==
    IF Len(data) >= TokenSize THEN {[k \in 1 .. TokenSize |-> 0]}
    ELSE [1 .. TokenSize -> {0, 255}]

IsEmptyPacketAlways(data) == Len(data) >= 0

\* if (packet->GetSize() == 0) break;
IsEmptyPacket(data) == Len(data) = 0

IsFirstNodeOrSecond(id) == id <= 1

\* every node configured as generator sends at start
IsFirstNodeOrLast(id) == id = 0 \/ id = NUM_NODES - 1

\* StartApplication: only the first node generates and sends.
IsFirstNode(id) == id = 0

----------------------------------------------------------------------------
(* The socket a TcpApp field points to: "null", "created" (CreateSocket),  *)
(* "connected" (Connect called), "closed" (Close called).                  *)

\* Socket::CreateSocket(node, TcpSocketFactory)
CreateSocket == "created"

\* EstablishNeighborLink: sender_socket->Connect(remote)
EstablishNeighborLink(s) == IF s = "created" THEN "connected" ELSE s

SendPacketCloseOmitted(s) == s

\* SendPacket: sender_socket->Send(packet); sender_socket->Close()
SendPacketClose(s) == IF s = "connected" THEN "closed" ELSE s

CloseAndResetKeepsPointer(s) == IF s # "null" THEN "closed" ELSE s

\* StopApplication: if (socket) { socket->Close(); socket = nullptr; }
CloseAndReset(s) == IF s # "null" THEN "null" ELSE s

ValidateConnectionRefusing(from) == FALSE

\* ValidateConnection: return true
ValidateConnection(from) == TRUE

LoggedNumberAfterDraw(received, sent) == sent

\* NS_LOG_UNCOND("no: " << id << " recebeu: " << receivedNumber) runs before
\* the number is replaced by a draw.
LoggedNumber(received, sent) == received

----------------------------------------------------------------------------
(* Connections in flight *)

\* EstablishNeighborLink + SendPacket: Connect(remote), Send(packet), Close():
\* a fresh connection that carries the one packet.
Connection(src, dst, data) ==
    [src |-> src, dst |-> dst, data |-> data, st |-> "syn", app |-> TRUE]

\* SendPacket(number) as the multiset of connections it adds.
SendPacket(src, dst, number) ==
    SetToBag({Connection(src, dst, CreatePacket(number))})

\* ev is what the step just taken logged and sent, if it ran a callback.
NoEvent == [kind |-> "none", at |-> 0, from |-> 0, size |-> 0,
            regenerated |-> FALSE, log |-> <<>>, sends |-> <<>>]

\* Every application is scheduled at the same two instants, so the events due
\* at the current timestamp have all run before any packet (which takes time
\* to cross the channel) is delivered.
DueEventsDone ==
    /\ now = StartTime => \A i \in 0 .. (NUM_NODES - 1) : started[i]
    /\ now = AppStopTime => \A i \in 0 .. (NUM_NODES - 1) : stopped[i]

\* The simulator executes events while it has not been stopped.
Running == ~halted /\ now >= StartTime /\ now < SimStopTime /\ DueEventsDone

----------------------------------------------------------------------------
(* main(): ConfigureApplication for each node *)

InitRight(i) == IF i = 0 THEN GetAddress(i + 1)
                ELSE IF i = NUM_NODES - 1 THEN GetAddress(i - 1)
                ELSE GetAddress(i + 1)

\* the two neighbour arguments of ConfigureApplication in the other order
InitLeftSwapped(i) == IF i = 0 THEN GetAddress(i + 1)
                      ELSE IF i = NUM_NODES - 1 THEN GetAddress(i - 1)
                      ELSE GetAddress(i + 1)

InitLeft(i) == IF i = 0 THEN GetAddress(i + 1)
               ELSE IF i = NUM_NODES - 1 THEN GetAddress(i - 1)
               ELSE GetAddress(i - 1)

InitGenerator(i) == i = 0 \/ i = NUM_NODES - 1

Init ==
    /\ now = 0
    /\ halted = FALSE
    /\ started = [i \in Nodes |-> FALSE]
    /\ stopped = [i \in Nodes |-> FALSE]
    /\ generator = [i \in Nodes |-> InitGenerator(i)]
    /\ left_neighbor_ip = [i \in Nodes |-> InitLeft(i)]
    /\ right_neighbor_ip = [i \in Nodes |-> InitRight(i)]
    /\ receiver_socket = [i \in Nodes |-> "null"]
    /\ sender_socket = [i \in Nodes |-> "null"]
    /\ net = EmptyBag
    /\ ev = NoEvent
    /\ injected = 0

----------------------------------------------------------------------------
(* Scheduler *)

EventTimes == {StartTime, AppStopTime, SimStopTime}

\* The clock jumps to the next scheduled timestamp once every event due at the
\* current one has run.
AdvanceClock ==
    /\ ~halted
    /\ now < SimStopTime
    /\ DueEventsDone
    /\ now' = CHOOSE t \in EventTimes :
                 t > now /\ \A u \in EventTimes : u > now => t <= u
    /\ ev' = NoEvent
    /\ UNCHANGED <<halted, started, stopped, generator, left_neighbor_ip,
                   right_neighbor_ip, receiver_socket, sender_socket, net,
                   injected>>

\* Simulator::Stop(Seconds(30))
SimulatorStop ==
    /\ ~halted
    /\ now = SimStopTime
    /\ halted' = TRUE
    /\ ev' = NoEvent
    /\ UNCHANGED <<now, started, stopped, generator, left_neighbor_ip,
                   right_neighbor_ip, receiver_socket, sender_socket, net,
                   injected>>

----------------------------------------------------------------------------
(* TcpApp callbacks *)

StartApplication(i) ==
    /\ ~halted
    /\ now = StartTime
    /\ ~started[i]
    \* events with the same timestamp run in the order main() created them
    /\ \A j \in Nodes : j < i => started[j]
    /\ started' = [started EXCEPT ![i] = TRUE]
    /\ receiver_socket' = [receiver_socket EXCEPT ![i] = "listening"]
    /\ IF IsFirstNode(i)
       THEN \E number \in GenerateRandomValue :
              /\ net' = net (+) SendPacket(GetAddress(i), left_neighbor_ip[i], number)
              /\ sender_socket' = [sender_socket EXCEPT ![i] =
                       SendPacketClose(EstablishNeighborLink(CreateSocket))]
              /\ ev' = [kind |-> "start", at |-> i, from |-> 0, size |-> 0,
                        regenerated |-> TRUE,
                        log |-> << [msg |-> "conecta", id |-> i, n |-> left_neighbor_ip[i]],
                                   [msg |-> "envia", id |-> i, n |-> number] >>,
                        sends |-> << [to |-> left_neighbor_ip[i], val |-> number] >>]
       ELSE /\ net' = net
            /\ sender_socket' = [sender_socket EXCEPT ![i] = CreateSocket]
            /\ ev' = [kind |-> "start", at |-> i, from |-> 0, size |-> 0,
                      regenerated |-> FALSE, log |-> <<>>, sends |-> <<>>]
    /\ UNCHANGED <<now, halted, stopped, generator, left_neighbor_ip,
                   right_neighbor_ip, injected>>

StopApplication(i) ==
    /\ ~halted
    /\ now = AppStopTime
    /\ ~stopped[i]
    /\ \A j \in Nodes : j < i => stopped[j]
    /\ stopped' = [stopped EXCEPT ![i] = TRUE]
    /\ receiver_socket' = [receiver_socket EXCEPT ![i] = CloseAndReset(@)]
    /\ sender_socket' = [sender_socket EXCEPT ![i] = CloseAndReset(@)]
    /\ ev' = [kind |-> "stop", at |-> i, from |-> 0, size |-> 0,
              regenerated |-> FALSE,
              log |-> << [msg |-> "encerrada", id |-> i, n |-> 0] >>,
              sends |-> <<>>]
    /\ UNCHANGED <<now, halted, started, generator, left_neighbor_ip,
                   right_neighbor_ip, net, injected>>

\* ValidateConnection returns true for every peer; HandleConnectionAccept sets
\* the receive callback on the accepted socket.
HandleConnectionAccept(c) ==
    /\ Running
    /\ BagIn(c, net)
    /\ c.st = "syn"
    /\ c.dst \in Addresses
    /\ receiver_socket[NodeOf(c.dst)] = "listening"
    /\ ValidateConnection(c.src)
    /\ net' = (net (-) SetToBag({c})) (+) SetToBag({[c EXCEPT !.st = "accepted"]})
    /\ ev' = [kind |-> "accept", at |-> NodeOf(c.dst), from |-> c.src,
              size |-> 0, regenerated |-> FALSE,
              log |-> << [msg |-> "solicitada", id |-> NodeOf(c.dst), n |-> c.src] >>,
              sends |-> <<>>]
    /\ UNCHANGED <<now, halted, started, stopped, generator, left_neighbor_ip,
                   right_neighbor_ip, receiver_socket, sender_socket, injected>>

\* One invocation of the receive callback on the accepted socket of c, with v
\* the value drawn (if a draw is made) and fill the stale octets of the local.
ProcessPacket(c, v, fill) ==
    /\ Running
    /\ BagIn(c, net)
    /\ c.st = "accepted"
    /\ v \in Draws(generator[NodeOf(c.dst)], IsOriginHop(NodeOf(c.dst), c.src))
    /\ fill \in Uninitialized(c.data)
    /\ LET i == NodeOf(c.dst)
           rest == net (-) SetToBag({c})
       IN IF IsEmptyPacket(c.data)
          THEN /\ net' = rest
               /\ sender_socket' = [sender_socket EXCEPT ![i] = CreateSocket]
               /\ ev' = [kind |-> "recv", at |-> i, from |-> c.src, size |-> 0,
                         regenerated |-> FALSE, log |-> <<>>, sends |-> <<>>]
               /\ UNCHANGED <<generator, left_neighbor_ip>>
          ELSE LET receivedNumber == ntohl(CopyData(c.data, fill))
                   r == Relay(i, c.src, receivedNumber, generator[i],
                              right_neighbor_ip[i], left_neighbor_ip[i], v)
               IN /\ net' = rest (+) SendPacket(c.dst, r.dest, r.number)
                  /\ sender_socket' = [sender_socket EXCEPT ![i] =
                         SendPacketClose(EstablishNeighborLink(CreateSocket))]
                  /\ generator' = [generator EXCEPT ![i] = r.generator]
                  /\ left_neighbor_ip' = [left_neighbor_ip EXCEPT ![i] = r.left]
                  /\ ev' = [kind |-> "recv", at |-> i, from |-> c.src,
                            size |-> Len(c.data),
                            regenerated |-> r.regenerated,
                            log |-> << [msg |-> "recebeu", id |-> i,
                                        n |-> LoggedNumber(receivedNumber, r.number)],
                                       [msg |-> "conecta", id |-> i, n |-> r.dest],
                                       [msg |-> "envia", id |-> i, n |-> r.number] >>,
                            sends |-> << [to |-> r.dest, val |-> r.number] >>]
    /\ UNCHANGED <<now, halted, started, stopped, right_neighbor_ip,
                   receiver_socket, injected>>

ProcessReceivedPacket(c) ==
    \E v \in Draws(generator[NodeOf(c.dst)], IsOriginHop(NodeOf(c.dst), c.src)),
       fill \in Uninitialized(c.data) :
        ProcessPacket(c, v, fill)

\* a failure callback that connects and sends again
ConnectionFailedRetry(c) ==
    /\ Running
    /\ BagIn(c, net)
    /\ c.st = "syn"
    /\ c.app
    /\ net' = (net (-) SetToBag({c})) (+) SetToBag({Connection(c.src, c.dst, c.data)})
    /\ ev' = [kind |-> "failed", at |-> NodeOf(c.src), from |-> 0, size |-> 0,
              regenerated |-> FALSE,
              log |-> << [msg |-> "falha", id |-> NodeOf(c.src), n |-> 0] >>,
              sends |-> << [to |-> c.dst, val |-> ntohl(c.data)] >>]
    /\ UNCHANGED <<now, halted, started, stopped, generator, left_neighbor_ip,
                   right_neighbor_ip, receiver_socket, sender_socket, injected>>

\* The transport gives up on a connection request: the callback only logs, and
\* the packet buffered on that socket is never delivered.
ConnectionFailed(c) ==
    /\ Running
    /\ BagIn(c, net)
    /\ c.st = "syn"
    /\ c.app
    /\ net' = net (-) SetToBag({c})
    /\ ev' = [kind |-> "failed", at |-> NodeOf(c.src), from |-> 0, size |-> 0,
              regenerated |-> FALSE,
              log |-> << [msg |-> "falha", id |-> NodeOf(c.src), n |-> 0] >>,
              sends |-> <<>>]
    /\ UNCHANGED <<now, halted, started, stopped, generator, left_neighbor_ip,
                   right_neighbor_ip, receiver_socket, sender_socket, injected>>

----------------------------------------------------------------------------
(* Environment: every node shares the one wifi channel and ValidateConnection *)
(* admits any peer, so any address can open a connection to any listening    *)
(* application and write any number of octets on it.                         *)

PayloadOfSize(k) == [j \in 1 .. k |-> IF j = k THEN 7 ELSE 0]

InjectedPayloads == {PayloadOfSize(k) : k \in 0 .. MaxSize}

\* The environment opens a connection only while no other one is in flight.
Inject(q, i, data) ==
    /\ Running
    /\ injected < MaxInject
    /\ net = EmptyBag
    /\ q # GetAddress(i)
    /\ net' = SetToBag({[src |-> q, dst |-> GetAddress(i), data |-> data,
                         st |-> "syn", app |-> FALSE]})
    /\ injected' = injected + 1
    /\ ev' = NoEvent
    /\ UNCHANGED <<now, halted, started, stopped, generator, left_neighbor_ip,
                   right_neighbor_ip, receiver_socket, sender_socket>>

----------------------------------------------------------------------------
Next ==
    \/ AdvanceClock
    \/ SimulatorStop
    \/ \E i \in Nodes : StartApplication(i)
    \/ \E i \in Nodes : StopApplication(i)
    \/ \E c \in BagToSet(net) : HandleConnectionAccept(c)
    \/ \E c \in BagToSet(net) : ProcessReceivedPacket(c)

Spec == Init /\ [][Next]_vars

\* Simulator::Run executes every scheduled event, and the transport delivers
\* what was sent; when the clock moves on to the deadline is left open.
FairSpec ==
    /\ Spec
    /\ WF_vars(AdvanceClock /\ now < StartTime)
    /\ WF_vars(\E i \in Nodes : StartApplication(i))
    /\ WF_vars(\E c \in BagToSet(net) : HandleConnectionAccept(c))
    /\ WF_vars(\E c \in BagToSet(net) : ProcessReceivedPacket(c))

\* The program with a lossy transport and foreign peers.
NextEnv ==
    \/ Next
    \/ \E c \in BagToSet(net) : ConnectionFailed(c)
    \/ \E q \in Addresses, i \in Nodes, data \in InjectedPayloads : Inject(q, i, data)

SpecEnv == Init /\ [][NextEnv]_vars

----------------------------------------------------------------------------
(* Vocabulary of the properties *)

\* The step just taken was a receipt of a non-empty packet at position i.
ReceiptAt(e, i) == e.kind = "recv" /\ e.at = i /\ e.size > 0

\* The callback just run sent exactly one packet, to address a, and the
\* connection carrying it is in flight.
SentOneTo(e, a) ==
    /\ Len(e.sends) = 1
    /\ e.sends[1].to = a
    /\ BagIn(Connection(GetAddress(e.at), a, CreatePacket(e.sends[1].val)), net)

\* The connections in bag b opened by, or addressed to, address a.
Touching(b, a) ==
    [c \in {x \in DOMAIN b : x.src = a \/ x.dst = a} |-> b[c]]

----------------------------------------------------------------------------
\* C1: every receipt at position 2 or 3 is answered by a send to the neighbour
\* opposite the sender: from p-1 it goes to p+1, from p+1 it goes to p-1.
Directionality ==
    \A p \in {2, 3} :
        ReceiptAt(ev, p) =>
            /\ ev.from = GetAddress(p - 1) => SentOneTo(ev, GetAddress(p + 1))
            /\ ev.from = GetAddress(p + 1) => SentOneTo(ev, GetAddress(p - 1))

DirectionalityWitness ==
    /\ ReceiptAt(ev, 3)
    /\ ev.from = GetAddress(4)
    /\ SentOneTo(ev, GetAddress(2))

----------------------------------------------------------------------------
\* C2: position 1's generator flag changes only from FALSE to TRUE, only on a
\* receipt from position 0, is never reset, is set from the first receipt at
\* position 1 on, and every receipt at position 1 after the change draws a new
\* value instead of forwarding the received one.
RoleFlip ==
    /\ [](ReceiptAt(ev, 1) => generator[1])
    /\ [][ /\ generator[1] => generator'[1]
           /\ generator'[1] # generator[1] =>
                  ReceiptAt(ev', 1) /\ ev'.from = GetAddress(0)
           /\ generator[1] /\ ReceiptAt(ev', 1) =>
                  ev'.regenerated /\ ev'.sends[1].val \in RandMin .. RandMax ]_vars

RoleFlipWitness ==
    /\ generator[1]
    /\ ReceiptAt(ev, 1)
    /\ ev.regenerated
    /\ ev.sends[1].val # ev.log[1].n

----------------------------------------------------------------------------
\* C3: every receipt, at whatever position, and the start of position 0 send
\* exactly one packet.
SingleSend ==
    /\ [](ev.kind = "recv" => Len(ev.sends) = 1 /\ SentOneTo(ev, ev.sends[1].to))
    /\ [](ev.kind = "start" /\ ev.at = 0 => SentOneTo(ev, GetAddress(1)))
    /\ [][ /\ ev'.kind = "recv" => BagCardinality(net') = BagCardinality(net)
           /\ ev'.kind = "start" /\ ev'.at = 0 =>
                  BagCardinality(net') = BagCardinality(net) + 1 ]_vars

SingleSendWitness ==
    /\ ReceiptAt(ev, 2)
    /\ Len(ev.sends) = 1
    /\ BagCardinality(net) = 1

----------------------------------------------------------------------------
\* C4: a receipt at position 4, or at position 1 once it is a generator, sends
\* one packet to the only neighbour (3, respectively 2) whose value is a draw
\* from 0..100; whatever was received, each value of 0..100 can be the one sent.
IsEndpointReceipt(c) ==
    /\ Running
    /\ c.st = "accepted"
    /\ \/ c.dst = GetAddress(4)
       \/ c.dst = GetAddress(1) /\ generator[1]

EndpointNeighbor(i) == IF i = 4 THEN GetAddress(3) ELSE GetAddress(2)

EndpointRegeneration ==
    /\ [][ \A i \in {1, 4} :
             generator[i] /\ ReceiptAt(ev', i) =>
                 /\ ev'.regenerated
                 /\ ev'.sends[1].val \in RandMin .. RandMax
                 /\ Len(ev'.sends) = 1
                 /\ ev'.sends[1].to = EndpointNeighbor(i)
                 /\ BagIn(Connection(GetAddress(i), EndpointNeighbor(i),
                                     CreatePacket(ev'.sends[1].val)), net') ]_vars
    /\ [](\A c \in BagToSet(net) :
             IsEndpointReceipt(c) =>
                 \A v \in RandMin .. RandMax :
                     ENABLED ( /\ ProcessPacket(c, v, [k \in 1 .. TokenSize |-> 0])
                               /\ ev'.sends[1].val = v ))

EndpointRegenerationWitness ==
    /\ ReceiptAt(ev, 4)
    /\ ev.regenerated
    /\ ev.log[1].n = RandMin
    /\ SentOneTo(ev, GetAddress(3))
    /\ ev.sends[1].val = RandMax

----------------------------------------------------------------------------
\* C5: the start of position 0 sends one packet, to position 1; nothing is sent
\* by position 0 afterwards and no callback of position 0 handles a connection;
\* the start of positions 1..4 sends nothing.
Origin ==
    [][ /\ ~started[0] /\ started'[0] =>
              /\ ev'.kind = "start" /\ ev'.at = 0
              /\ \E n \in RandMin .. RandMax :
                    net' = net (+) SendPacket(GetAddress(0), GetAddress(1), n)
        /\ started[0] =>
              /\ \/ Touching(net', GetAddress(0)) = Touching(net, GetAddress(0))
                 \/ \E c \in BagToSet(net) :
                       /\ c.src = GetAddress(0)
                       /\ ev'.at = NodeOf(c.dst)
                       /\ Touching(net', GetAddress(0))
                            \in { Touching((net (-) SetToBag({c}))
                                     (+) SetToBag({[c EXCEPT !.st = "accepted"]}),
                                     GetAddress(0)),
                                  Touching(net (-) SetToBag({c}), GetAddress(0)) }
              /\ ev'.kind \in {"recv", "accept", "failed", "start"} => ev'.at # 0
        /\ \A i \in 1 .. 4 :
              ~started[i] /\ started'[i] => net' = net /\ ev'.sends = <<>> ]_vars

OriginWitness ==
    /\ \A i \in Nodes : started[i]
    /\ ReceiptAt(ev, 1)
    /\ ev.from = GetAddress(0)
    /\ BagCardinality(net) = 1

----------------------------------------------------------------------------
\* C6: the receipt at position 1 of the packet sent by position 0 sends to
\* position 2 the value that packet carried, without a draw, and sets the
\* generator flag in the same step.
OriginHop ==
    [][ ReceiptAt(ev', 1) /\ ev'.from = GetAddress(0) =>
            /\ \E c \in BagToSet(net) :
                  /\ c.src = GetAddress(0) /\ c.dst = GetAddress(1)
                  /\ c.data = CreatePacket(ev'.sends[1].val)
                  /\ net' = (net (-) SetToBag({c}))
                              (+) SendPacket(GetAddress(1), GetAddress(2),
                                             ev'.sends[1].val)
            /\ Len(ev'.sends) = 1
            /\ ev'.sends[1].to = GetAddress(2)
            /\ ~ev'.regenerated
            /\ ~generator[1] /\ generator'[1] ]_vars

OriginHopWitness ==
    /\ ReceiptAt(ev, 1)
    /\ ev.from = GetAddress(0)
    /\ ev.sends[1].val = RandMax
    /\ generator[1]
    /\ SentOneTo(ev, GetAddress(2))

----------------------------------------------------------------------------
\* C7: no connection is ever addressed to position 0, position 0 never handles
\* a receipt, and every packet position 1 sends goes to position 2.
NeverToOrigin ==
    /\ \A c \in BagToSet(net) : c.dst # GetAddress(0)
    /\ ev.kind \in {"recv", "accept"} => ev.at # 0
    /\ \A k \in 1 .. Len(ev.sends) : ev.sends[k].to # GetAddress(0)
    /\ ReceiptAt(ev, 1) => SentOneTo(ev, GetAddress(2))

NeverToOriginWitness ==
    /\ ReceiptAt(ev, 1)
    /\ ev.from = GetAddress(2)
    /\ left_neighbor_ip[1] = GetAddress(2)
    /\ SentOneTo(ev, GetAddress(2))

----------------------------------------------------------------------------
\* C8: once StopApplication has run at a position, no callback runs there, its
\* fields keep their values, and the connections it opened or that are
\* addressed to it stay as they are: a packet in flight is never relayed.
Termination ==
    [][ \A i \in Nodes :
          stopped[i] =>
              /\ ev'.kind \in {"recv", "accept", "failed", "start", "stop"}
                    => ev'.at # i
              /\ Touching(net', GetAddress(i)) = Touching(net, GetAddress(i))
              /\ sender_socket'[i] = sender_socket[i]
              /\ receiver_socket'[i] = receiver_socket[i]
              /\ generator'[i] = generator[i]
              /\ stopped'[i] ]_vars

TerminationWitness ==
    /\ halted
    /\ \E c \in BagToSet(net) :
          /\ c.st = "accepted"
          /\ stopped[NodeOf(c.dst)]
          /\ stopped[NodeOf(c.src)]

----------------------------------------------------------------------------
\* C9: a receipt whose sender is neither configured neighbour of the receiver
\* sends nothing and leaves the receiver's role and neighbours as they were.
ProtocolViolationDropped ==
    [][ \A i \in Nodes :
          /\ ReceiptAt(ev', i)
          /\ ev'.from \notin {left_neighbor_ip[i], right_neighbor_ip[i]}
          => /\ ev'.sends = <<>>
             /\ BagCardinality(net') = BagCardinality(net) - 1
             /\ generator'[i] = generator[i]
             /\ left_neighbor_ip'[i] = left_neighbor_ip[i]
             /\ right_neighbor_ip'[i] = right_neighbor_ip[i] ]_vars

----------------------------------------------------------------------------
\* C10: a receipt of a packet whose size is not 4 octets sends nothing.
MalformedDropped ==
    [][ ev'.kind = "recv" /\ ev'.size # TokenSize =>
            /\ ev'.sends = <<>>
            /\ BagCardinality(net') = BagCardinality(net) - 1 ]_vars

----------------------------------------------------------------------------
\* C11 as stated: every left and right neighbour entry keeps the value main()
\* configured, with left(p) = p-1 and right(p) = p+1 where those positions exist.
LinkDirectoryStatic ==
    \A i \in Nodes :
        /\ left_neighbor_ip[i] = InitLeft(i)
        /\ right_neighbor_ip[i] = InitRight(i)
        /\ i >= 1 => left_neighbor_ip[i] = GetAddress(i - 1)
        /\ i <= NUM_NODES - 2 => right_neighbor_ip[i] = GetAddress(i + 1)

\* C11: the neighbour entries keep the values main() configured (left(p) = p-1
\* and right(p) = p+1 where those positions exist), except the left entry of
\* position 1: the receipt from position 0 overwrites it, once, with the right
\* entry (position 2), and it is position 0 exactly until then.
LinkDirectoryStaticButOriginHop ==
    /\ [](\A i \in Nodes :
             /\ right_neighbor_ip[i] = InitRight(i)
             /\ i <= NUM_NODES - 2 => right_neighbor_ip[i] = GetAddress(i + 1)
             /\ i # 1 => left_neighbor_ip[i] = InitLeft(i)
             /\ i >= 2 => left_neighbor_ip[i] = GetAddress(i - 1))
    /\ [](left_neighbor_ip[1] = (IF generator[1] THEN GetAddress(2) ELSE GetAddress(0)))
    /\ [][ left_neighbor_ip' # left_neighbor_ip =>
              /\ ReceiptAt(ev', 1)
              /\ ev'.from = GetAddress(0)
              /\ left_neighbor_ip[1] = GetAddress(0)
              /\ left_neighbor_ip' = [left_neighbor_ip EXCEPT ![1] = right_neighbor_ip[1]] ]_vars

LinkDirectoryWitness ==
    /\ left_neighbor_ip[1] = GetAddress(2)
    /\ ReceiptAt(ev, 3)
    /\ ev.from = GetAddress(2)
    /\ left_neighbor_ip[3] = GetAddress(2)

----------------------------------------------------------------------------
\* C12: whatever position 2 or 3 sends is sent on a receipt, and carries the
\* value of the packet received: the value v its sender encoded is the value
\* encoded on the outgoing connection.
ForwardingPreservesValue ==
    [][ \A p \in {2, 3} :
          ev'.at = p /\ ev'.sends # <<>> =>
              /\ ReceiptAt(ev', p)
              /\ Len(ev'.sends) = 1
              /\ ~ev'.regenerated
              /\ \E c \in BagToSet(net), v \in RandMin .. RandMax :
                    /\ c.dst = GetAddress(p) /\ c.st = "accepted"
                    /\ c.data = CreatePacket(v)
                    /\ ev'.sends[1].val = v
                    /\ net' = (net (-) SetToBag({c}))
                                (+) SendPacket(GetAddress(p), ev'.sends[1].to, v) ]_vars

ForwardingPreservesValueWitness ==
    /\ ReceiptAt(ev, 2)
    /\ ev.from = GetAddress(3)
    /\ ev.log[1].n = RandMax
    /\ BagIn(Connection(GetAddress(2), GetAddress(1), CreatePacket(RandMax)), net)

----------------------------------------------------------------------------
\* C13: every packet in flight, and every packet a callback has just sent,
\* encodes a value of 0..100.
TokenRange ==
    /\ \A c \in BagToSet(net) :
          \E v \in RandMin .. RandMax : c.data = CreatePacket(v)
    /\ \A k \in 1 .. Len(ev.sends) : ev.sends[k].val \in RandMin .. RandMax

TokenRangeWitness ==
    /\ ReceiptAt(ev, 4)
    /\ ev.sends[1].val = RandMax
    /\ \E c \in BagToSet(net) :
          c.src = GetAddress(4) /\ c.data = CreatePacket(RandMax)

----------------------------------------------------------------------------
\* C14: StopApplication leaves both socket fields null, and running it again
\* on the fields it left (or on fields that never sent) changes nothing.
StopFields(rs, ss) == [receiver |-> CloseAndReset(rs), sender |-> CloseAndReset(ss)]

StopIdempotent ==
    /\ [](\A i \in Nodes :
             LET once == StopFields(receiver_socket[i], sender_socket[i])
                 twice == StopFields(once.receiver, once.sender)
             IN /\ once.receiver = "null" /\ once.sender = "null"
                /\ twice = once)
    /\ [](\A i \in Nodes :
             stopped[i] => receiver_socket[i] = "null" /\ sender_socket[i] = "null")
    /\ [][ \A i \in Nodes :
             ~stopped[i] /\ stopped'[i] =>
                 /\ receiver_socket'[i] = "null" /\ sender_socket'[i] = "null"
                 /\ StopFields(receiver_socket'[i], sender_socket'[i])
                      = [receiver |-> receiver_socket'[i], sender |-> sender_socket'[i]]
                 /\ generator'[i] = generator[i]
                 /\ left_neighbor_ip'[i] = left_neighbor_ip[i]
                 /\ right_neighbor_ip'[i] = right_neighbor_ip[i]
                 /\ net' = net ]_vars

StopIdempotentWitness ==
    /\ stopped[4] /\ stopped[1]
    /\ ev.kind = "stop" /\ ev.at = 4
    /\ sender_socket[4] = "null" /\ receiver_socket[4] = "null"
    /\ sender_socket[1] = "null"
    /\ \E c \in BagToSet(net) : c.src = GetAddress(1)

----------------------------------------------------------------------------
\* C15: when the transport reports that a connection request of position i
\* failed, the connection and its packet are dropped and nothing is sent in
\* their place, the role and the neighbours of i stay as they are, and i keeps
\* listening; packets are sent only by the start and receive callbacks.
TransportFailureAbandons ==
    /\ [][ ev'.kind = "failed" =>
              /\ \E c \in BagToSet(net) :
                    /\ c.st = "syn" /\ c.app /\ c.src = GetAddress(ev'.at)
                    /\ net' = net (-) SetToBag({c})
              /\ ev'.sends = <<>>
              /\ generator' = generator
              /\ left_neighbor_ip' = left_neighbor_ip
              /\ right_neighbor_ip' = right_neighbor_ip
              /\ sender_socket' = sender_socket
              /\ receiver_socket'[ev'.at] = "listening" ]_vars
    /\ [][ ev'.sends # <<>> => ev'.kind \in {"recv", "start"} ]_vars
    /\ [](Running => \A i \in Nodes : receiver_socket[i] = "listening")

\* The only packet position 0 sent was lost (position 1 never became a
\* generator), and position 0 then handles a receipt and answers it.
TransportFailureWitness ==
    /\ ~generator[1]
    /\ left_neighbor_ip[1] = GetAddress(0)
    /\ ReceiptAt(ev, 0)
    /\ SentOneTo(ev, GetAddress(1))

----------------------------------------------------------------------------
\* C16: the receiving positions follow 1,2,3,4,3,2,1,2,3,4,...: the first
\* receipt is at position 1, every connection joins adjacent positions, and a
\* receipt at p of a packet from s is answered by a send to FlowNext(s, p),
\* which turns round only at positions 4 and 1.
FlowNext(s, p) == IF p = NUM_NODES - 1 THEN p - 1
                  ELSE IF p = 1 THEN 2
                  ELSE p + (p - s)

Adjacent(a, b) == a - b = 1 \/ b - a = 1

FlowOrder ==
    /\ [](\A c \in BagToSet(net) :
             /\ Adjacent(c.src, c.dst)
             /\ c.dst \in {GetAddress(p) : p \in 1 .. NUM_NODES - 1})
    /\ [](ev.kind = "recv" =>
             /\ ev.size > 0
             /\ ev.at \in 1 .. NUM_NODES - 1
             /\ Adjacent(NodeOf(ev.from), ev.at))
    /\ [][ ev'.kind = "recv" =>
              /\ net = SetToBag({[src |-> ev'.from, dst |-> GetAddress(ev'.at),
                                  data |-> CreatePacket(ev'.log[1].n),
                                  st |-> "accepted", app |-> TRUE]})
              /\ \E v \in RandMin .. RandMax :
                    net' = SendPacket(GetAddress(ev'.at),
                                      GetAddress(FlowNext(NodeOf(ev'.from), ev'.at)), v) ]_vars
    /\ [][ ev'.kind = "start" /\ ev'.at = 0 =>
              \E v \in RandMin .. RandMax :
                  net' = SendPacket(GetAddress(0), GetAddress(1), v) ]_vars

\* The token has gone up the line, come back to position 1 and started up again.
FlowOrderWitness ==
    /\ ReceiptAt(ev, 2)
    /\ ev.from = GetAddress(1)
    /\ generator[1]
    /\ sender_socket[4] = "closed"
    /\ SentOneTo(ev, GetAddress(3))

----------------------------------------------------------------------------
\* C17: between callbacks no sender socket is left connected, no position has
\* more than one connection of its own in flight, every such connection carries
\* exactly one 4-octet packet, and each send is made on a socket created in
\* that callback, connected, used once and closed.
OpenedBy(b, a) == [c \in {x \in DOMAIN b : x.src = a} |-> b[c]]

PendingLink ==
    /\ [](\A i \in Nodes :
             /\ sender_socket[i] \in {"null", "created", "closed"}
             /\ BagCardinality(OpenedBy(net, GetAddress(i))) <= 1)
    /\ [](\A c \in BagToSet(net) :
             c.app => Len(c.data) = TokenSize /\ CopiesIn(c, net) = 1)
    /\ [][ ev'.sends # <<>> =>
              /\ Len(ev'.sends) = 1
              /\ sender_socket'[ev'.at] = "closed"
              /\ BagCardinality(OpenedBy(net, GetAddress(ev'.at))) = 0
              /\ OpenedBy(net', GetAddress(ev'.at))
                   = SendPacket(GetAddress(ev'.at), ev'.sends[1].to, ev'.sends[1].val) ]_vars

PendingLinkWitness ==
    /\ ReceiptAt(ev, 3)
    /\ ev.from = GetAddress(2)
    /\ sender_socket[3] = "closed"
    /\ sender_socket[2] = "closed"
    /\ BagCardinality(OpenedBy(net, GetAddress(3))) = 1
    /\ BagCardinality(OpenedBy(net, GetAddress(2))) = 0

----------------------------------------------------------------------------
\* C18: a receipt logs exactly one "recebeu" line, with the receiver's position
\* and the value v that the sender encoded on the connection, also when the
\* receiver then draws another value to send; no other callback logs one.
ReceivedLines(e) == {k \in 1 .. Len(e.log) : e.log[k].msg = "recebeu"}

ReceiptLog ==
    /\ [][ ev'.kind = "recv" =>
              /\ ReceivedLines(ev') = {1}
              /\ \E c \in BagToSet(net), v \in RandMin .. RandMax :
                    /\ c.dst = GetAddress(ev'.at) /\ c.st = "accepted"
                    /\ c.src = ev'.from
                    /\ c.data = CreatePacket(v)
                    /\ ~BagIn(c, net')
                    /\ ev'.log[1] = [msg |-> "recebeu", id |-> ev'.at, n |-> v] ]_vars
    /\ [](ev.kind # "recv" => ReceivedLines(ev) = {})

ReceiptLogWitness ==
    /\ ReceiptAt(ev, 1)
    /\ ev.from = GetAddress(2)
    /\ ev.regenerated
    /\ ev.log[1] = [msg |-> "recebeu", id |-> 1, n |-> RandMax]
    /\ ev.sends[1].val = RandMin

----------------------------------------------------------------------------
\* C19: there is never more than one connection (one token) in the system:
\* none before position 0 has started, exactly one from then until the first
\* StopApplication, and at most one afterwards.
SingleToken ==
    /\ BagCardinality(net) <= 1
    /\ ~started[0] => net = EmptyBag
    /\ (started[0] /\ \A i \in Nodes : ~stopped[i]) => BagCardinality(net) = 1

SingleTokenWitness ==
    /\ now = StartTime
    /\ \A i \in Nodes : started[i] /\ ~stopped[i]
    /\ ReceiptAt(ev, 4)
    /\ BagCardinality(net) = 1
    /\ \E c \in BagToSet(net) : c.src = GetAddress(4) /\ c.st = "syn"

----------------------------------------------------------------------------
\* C20: as long as the deadline has not come, a packet addressed to a position
\* is eventually received there and answered by one send; in a run in which
\* the deadline never comes every position 1..4 receives again and again.
DeadlineReached == now >= AppStopTime

InFlightTo(q) == \E c \in BagToSet(net) : c.dst = GetAddress(q)

Progress ==
    /\ \A q \in 1 .. NUM_NODES - 1 :
          InFlightTo(q) ~> ((ReceiptAt(ev, q) /\ Len(ev.sends) = 1) \/ DeadlineReached)
    /\ \A q \in 1 .. NUM_NODES - 1 :
          []<>(ReceiptAt(ev, q) \/ DeadlineReached)

ProgressWitness ==
    /\ ~DeadlineReached
    /\ ReceiptAt(ev, 1)
    /\ ev.from = GetAddress(2)
    /\ InFlightTo(2)
    /\ sender_socket[4] = "closed"

====
